---- MODULE Spec2Model ----
(***************************************************************************)
(* State-machine model of sample_rest_app/app.py: a FastAPI service over   *)
(* two PostgreSQL tables, users and app_logs.                              *)
(*                                                                         *)
(* Every route handler is an `async def` without an await, so a handler    *)
(* runs to completion on the event loop: one action per handler.  The      *)
(* driver calls a handler makes (connect, execute, commit, close) may each *)
(* raise psycopg2.Error; the call that raises is an input of the action.   *)
(*                                                                         *)
(* Of table app_logs the model keeps the rows each request appends         *)
(* (last.logged), and of the connections those a request opened and did    *)
(* not close (last.leaked): no handler reads either back, except /stats,   *)
(* whose aggregate of app_logs is left out of its response here.           *)
(***************************************************************************)
EXTENDS Integers, Sequences, FiniteSets

VARIABLES
    DB_CONFIG,      \* the module-level configuration dict (app.py:59-65)
    started,        \* lifespan startup has run
    tables,         \* init_database committed its CREATE TABLE statements
    users,          \* rows of table users
    users_id_seq,   \* last value of the SERIAL sequence behind users.id
    now,            \* the store's clock, CURRENT_TIMESTAMP
    last            \* the last request and the response it got

vars == <<DB_CONFIG, started, tables, users, users_id_seq, now, last>>

----------------------------------------------------------------------------
(* Bounds of the model *)

MaxId == 2
MaxClock == 1

(* Inputs *)

ValidEmails == {"ann@x.com", "bob@x.com"}
Payloads ==
    {[name |-> "Ann", email |-> "ann@x.com"],
     [name |-> "Bob", email |-> "bob@x.com"],
     [name |-> "Ann", email |-> "not-an-email"]}
Passwords == {"password", "s3cr3t", "hunter2"}
DriverErrors == {"server closed the connection unexpectedly"}
UserIds == 1..MaxId

(* Status codes named in the source *)

HTTP_201_CREATED == 201
HTTP_404_NOT_FOUND == 404
HTTP_409_CONFLICT == 409
HTTP_500_INTERNAL_SERVER_ERROR == 500

Routes == {"root", "health_check", "get_users", "create_user", "get_user",
           "delete_user", "get_stats", "test_database"}

----------------------------------------------------------------------------
(* Pydantic models and configuration *)

\* UserCreate.email: EmailStr accepts well-formed addresses only.
EmailStr(email) == email \in ValidEmails

\* os.getenv defaults; the password is whatever the environment supplies.
EnvConfig(password) ==
    [host |-> "localhost", database |-> "appdb", user |-> "dbuser",
     password |-> password, port |-> "5432"]

\* A comprehension that copies every value, the password too.
RedactedConfigLeaky(cfg) == cfg

\* {k: v if k != 'password' else '***' for k, v in DB_CONFIG.items()}
RedactedConfig(cfg) ==
    [k \in DOMAIN cfg |-> IF k # "password" THEN cfg[k] ELSE "***"]

NoConfig == [k \in {} |-> ""]

----------------------------------------------------------------------------
(* The connection factory *)

\* A factory without the except clause: the driver's error escapes it.
get_db_connection_reraise(ok) == IF ok THEN "conn" ELSE "raise"

\* psycopg2.connect raising psycopg2.Error is caught and turned into None.
get_db_connection(ok) == IF ok THEN "conn" ELSE "None"

\* The driver calls that may raise, as inputs: the first call of the request
\* that raises.  A statement on a missing table raises when it executes.
Failures(steps, needsTables) ==
    {s \in steps : (needsTables /\ ~tables) => s \in {"connect", "execute"}}

ReadSteps == {"none", "connect", "execute", "close"}
WriteSteps == {"none", "connect", "execute", "commit", "close"}

----------------------------------------------------------------------------
(* log_request *)

LogEntry(endpoint, method, status_code) ==
    [endpoint |-> endpoint, method |-> method, status_code |-> status_code]

\* lf: the call of log_request that raises.  The row is stored once commit
\* returned; conn.close() is reached only if nothing raised before it.
log_request(endpoint, method, status_code, lf) ==
    [rows |-> IF get_db_connection(lf # "connect") = "conn"
                 /\ lf \in {"none", "close"}
              THEN <<LogEntry(endpoint, method, status_code)>>
              ELSE <<>>,
     leak |-> IF get_db_connection(lf # "connect") = "conn"
                 /\ lf \in {"execute", "commit", "close"}
              THEN 1 ELSE 0]

\* The inputs log_request can meet.
LogFailures == Failures(WriteSteps, TRUE)

----------------------------------------------------------------------------
(* Responses.  A handler's result: the response, the store's new contents, *)
(* the connections the handler left open (held), the call of log_request   *)
(* it made (log, at most one) and the driver call that raised (fail).      *)

Response ==
    [status |-> 200, detail |-> <<>>, body_status |-> "", database |-> "",
     config |-> NoConfig, users |-> <<>>, user |-> <<>>, count |-> 0,
     fail |-> "none", fault |-> FALSE, held |-> 0, log |-> <<>>,
     db_users |-> users, db_seq |-> users_id_seq]

\* raise HTTPException(status_code=..., detail=...)
HTTPException(status_code, detail, fail, held, log) ==
    [Response EXCEPT !.status = status_code, !.detail = <<detail>>,
                     !.fail = fail, !.held = held, !.log = log]

\* An exception no handler catches: the server answers 500 itself.
UnhandledFault(fail) ==
    [Response EXCEPT !.status = 500, !.detail = <<"Internal Server Error">>,
                     !.fail = fail, !.fault = TRUE]

----------------------------------------------------------------------------
(* Route handlers *)

\* GET / and GET /health: log first, then probe the store.  The connection
\* the probe opens is never closed by the handler.
HealthResponse(path, c) ==
    LET conn == get_db_connection(c)
        log == <<<<path, "GET", 200>>>>
    IN  IF conn = "raise"
        THEN [UnhandledFault("connect") EXCEPT !.log = log]
        ELSE [Response EXCEPT
                !.body_status = "healthy",
                !.detail = <<"FastAPI app is running">>,
                !.database = IF conn = "conn" THEN "connected"
                             ELSE "disconnected",
                !.fail = IF c THEN "none" ELSE "connect",
                !.held = IF conn = "conn" THEN 1 ELSE 0,
                !.log = log]

root(c) == HealthResponse(<<"/">>, c)

health_check(c) == HealthResponse(<<"/health">>, c)

\* if conn is None: log_request(..., 500); raise HTTPException(500, ...)
ConnectionFailed(endpoint, method) ==
    HTTPException(HTTP_500_INTERNAL_SERVER_ERROR, "Database connection failed",
                  "connect", 0,
                  <<<<endpoint, method, HTTP_500_INTERNAL_SERVER_ERROR>>>>)

\* except psycopg2.Error: log_request(..., 500); raise HTTPException(500, ...)
\* conn.close() was not reached unless the failure came before the connect.
DatabaseError(endpoint, method, fail) ==
    HTTPException(HTTP_500_INTERNAL_SERVER_ERROR, "Database error", fail,
                  IF fail = "connect" THEN 0 ELSE 1,
                  <<<<endpoint, method, HTTP_500_INTERNAL_SERVER_ERROR>>>>)

\* Permutations of a set of rows.
Orderings(S) ==
    {s \in [1..Cardinality(S) -> S] :
        \A i, j \in 1..Cardinality(S) : i # j => s[i] # s[j]}

\* ORDER BY created_at without DESC: oldest first.
order_by_created_at_asc(S) ==
    {s \in Orderings(S) :
        \A i \in 1..(Cardinality(S) - 1) :
            s[i].created_at <= s[i + 1].created_at}

\* SELECT * FROM users ORDER BY created_at DESC: any order of the rows that
\* is non-increasing in created_at (rows of one timestamp come in any order).
order_by_created_at_desc(S) ==
    {s \in Orderings(S) :
        \A i \in 1..(Cardinality(S) - 1) :
            s[i].created_at >= s[i + 1].created_at}

\* GET /users; rows is what fetchall returned.
get_users(f, rows) ==
    LET conn == get_db_connection(f # "connect")
    IN  IF conn = "None" THEN ConnectionFailed(<<"/users">>, "GET")
        ELSE IF conn = "raise" \/ f # "none"
        THEN DatabaseError(<<"/users">>, "GET", f)
        ELSE [Response EXCEPT !.users = rows, !.count = Len(rows),
                              !.log = <<<<<<"/users">>, "GET", 200>>>>]

\* A users table whose email column lacks UNIQUE.
UniqueViolationNever(email) == FALSE

\* email VARCHAR(100) UNIQUE NOT NULL
UniqueViolation(email) == \E u \in users : u.email = email

\* POST /users.  The INSERT draws the next id from the sequence whether or
\* not the row is kept; the row is stored when commit returns.
create_user(name, email, f) ==
    LET conn == get_db_connection(f # "connect")
        row == [id |-> users_id_seq + 1, name |-> name, email |-> email,
                created_at |-> now]
        drawn == [Response EXCEPT !.db_seq = users_id_seq + 1]
    IN  IF ~EmailStr(email)
        THEN [Response EXCEPT !.status = 422,
                              !.detail = <<"value is not a valid email address">>]
        ELSE IF conn = "None" THEN ConnectionFailed(<<"/users">>, "POST")
        ELSE IF conn = "raise" \/ f = "execute"
        THEN DatabaseError(<<"/users">>, "POST", f)
        ELSE IF UniqueViolation(email)
        THEN [drawn EXCEPT
                !.status = HTTP_409_CONFLICT,
                !.detail = <<"Email already exists">>,
                !.fail = "integrity", !.held = 1,
                !.log = <<<<<<"/users">>, "POST", HTTP_409_CONFLICT>>>>]
        ELSE IF f = "commit"
        THEN [DatabaseError(<<"/users">>, "POST", f) EXCEPT
                !.db_seq = users_id_seq + 1]
        ELSE IF f = "close"
        THEN [DatabaseError(<<"/users">>, "POST", f) EXCEPT
                !.db_seq = users_id_seq + 1,
                !.db_users = users \cup {row}]
        ELSE [drawn EXCEPT
                !.status = HTTP_201_CREATED, !.user = <<row>>,
                !.db_users = users \cup {row},
                !.log = <<<<<<"/users">>, "POST", HTTP_201_CREATED>>>>]

\* GET /users/{user_id}: cursor and connection are closed before the row is
\* looked at.
get_user(user_id, f) ==
    LET conn == get_db_connection(f # "connect")
        endpoint == <<"/users/", user_id>>
        found == {u \in users : u.id = user_id}
    IN  IF conn = "None" THEN ConnectionFailed(endpoint, "GET")
        ELSE IF conn = "raise" \/ f # "none"
        THEN DatabaseError(endpoint, "GET", f)
        ELSE IF found # {}
        THEN [Response EXCEPT !.user = <<CHOOSE u \in found : TRUE>>,
                              !.log = <<<<endpoint, "GET", 200>>>>]
        ELSE HTTPException(HTTP_404_NOT_FOUND, "User not found", "none", 0,
                           <<<<endpoint, "GET", HTTP_404_NOT_FOUND>>>>)

\* The test written with >= 0: a DELETE that matched nothing passes it.
RowMatchedAlways(rowcount) == rowcount >= 0

\* if cursor.rowcount > 0
RowMatched(rowcount) == rowcount > 0

\* DELETE /users/{user_id}: commit only when a row matched.
delete_user(user_id, f) ==
    LET conn == get_db_connection(f # "connect")
        endpoint == <<"/users/", user_id>>
        found == {u \in users : u.id = user_id}
        rowcount == Cardinality(found)
    IN  IF conn = "None" THEN ConnectionFailed(endpoint, "DELETE")
        ELSE IF conn = "raise" \/ f = "execute"
        THEN DatabaseError(endpoint, "DELETE", f)
        ELSE IF RowMatched(rowcount)
        THEN IF f = "commit"
             THEN DatabaseError(endpoint, "DELETE", f)
             ELSE IF f = "close"
             THEN [DatabaseError(endpoint, "DELETE", f) EXCEPT
                     !.db_users = users \ found]
             ELSE [Response EXCEPT
                     !.detail = <<"User deleted successfully">>,
                     !.db_users = users \ found,
                     !.log = <<<<endpoint, "DELETE", 200>>>>]
        ELSE IF f = "close"
        THEN DatabaseError(endpoint, "DELETE", f)
        ELSE HTTPException(HTTP_404_NOT_FOUND, "User not found", "none", 0,
                           <<<<endpoint, "DELETE", HTTP_404_NOT_FOUND>>>>)

\* GET /stats: the conn-is-None branch raises without calling log_request.
get_stats(f) ==
    LET conn == get_db_connection(f # "connect")
    IN  IF conn = "None"
        THEN HTTPException(HTTP_500_INTERNAL_SERVER_ERROR,
                           "Database connection failed", "connect", 0, <<>>)
        ELSE IF conn = "raise" \/ f # "none"
        THEN DatabaseError(<<"/stats">>, "GET", f)
        ELSE [Response EXCEPT !.count = Cardinality(users),
                              !.database = "connected",
                              !.log = <<<<<<"/stats">>, "GET", 200>>>>]

\* GET /db-test: never calls log_request; the error branch puts str(e), the
\* driver's own text e, into the message.
test_database(f, e) ==
    LET conn == get_db_connection(f # "connect")
        config == RedactedConfig(DB_CONFIG)
    IN  IF conn = "None"
        THEN [Response EXCEPT !.body_status = "error",
                              !.detail = <<"Cannot connect to database">>,
                              !.fail = "connect", !.config = config]
        ELSE IF conn = "raise" \/ f # "none"
        THEN [Response EXCEPT !.body_status = "error",
                              !.detail = <<"Database error: ", e>>,
                              !.fail = f, !.config = config,
                              !.held = IF f = "connect" THEN 0 ELSE 1]
        ELSE [Response EXCEPT !.body_status = "success",
                              !.detail = <<"Database connection successful">>,
                              !.database = DB_CONFIG.database,
                              !.config = config]

----------------------------------------------------------------------------
(* Startup *)

\* init_database: True only if every call succeeded; the tables exist once
\* commit returned.  No branch closes the connection after an error.
init_database(f) ==
    LET conn == get_db_connection(f # "connect")
    IN  [ok |-> conn = "conn" /\ f = "none",
         tables |-> conn = "conn" /\ f \in {"none", "close"},
         held |-> IF conn = "conn" /\ f # "none" THEN 1 ELSE 0]

NoRequest ==
    [route |-> "none", user_id |-> 0, name |-> "", email |-> "",
     status |-> 0, detail |-> <<>>, body_status |-> "", database |-> "",
     config |-> NoConfig, users |-> <<>>, user |-> <<>>, count |-> 0,
     fail |-> "none", fault |-> FALSE, logged |-> <<>>, lf |-> "uncalled",
     leaked |-> 0, pre |-> {}]

Init ==
    /\ DB_CONFIG = EnvConfig("password")
    /\ started = FALSE
    /\ tables = FALSE
    /\ users = {}
    /\ users_id_seq = 0
    /\ now = 0
    /\ last = NoRequest

\* lifespan: startup runs init_database once and serves either way.
Lifespan ==
    /\ ~started
    /\ \E f \in Failures(WriteSteps, FALSE) :
          LET r == init_database(f)
          IN  /\ started' = TRUE
              /\ tables' = r.tables
              /\ last' = [NoRequest EXCEPT
                            !.route = "lifespan", !.fail = f,
                            !.body_status = IF r.ok THEN "initialized"
                                            ELSE "failed",
                            !.leaked = r.held]
    /\ UNCHANGED <<DB_CONFIG, users, users_id_seq, now>>

----------------------------------------------------------------------------
(* Requests *)

\* One request, start to end: the handler's result r, then the call of
\* log_request it made (lf: the call of log_request that raises), then the
\* return.  leaked: the connections the request opened and did not close;
\* nothing but the runtime's finalizer closes them afterwards.
Respond(route, user_id, name, email, r, lf) ==
    LET lg == IF r.log = <<>> THEN [rows |-> <<>>, leak |-> 0]
              ELSE log_request(r.log[1][1], r.log[1][2], r.log[1][3], lf)
        leaked == r.held + lg.leak
    IN  /\ started
        /\ users' = r.db_users
        /\ users_id_seq' = r.db_seq
        /\ last' = [route |-> route, user_id |-> user_id, name |-> name,
                    email |-> email, status |-> r.status,
                    detail |-> r.detail, body_status |-> r.body_status,
                    database |-> r.database, config |-> r.config,
                    users |-> r.users, user |-> r.user, count |-> r.count,
                    fail |-> r.fail, fault |-> r.fault, logged |-> lg.rows,
                    lf |-> IF r.log = <<>> THEN "uncalled"
                           ELSE IF lf = "none" THEN "ok" ELSE "failed",
                    leaked |-> leaked, pre |-> users]
        /\ UNCHANGED <<DB_CONFIG, started, tables, now>>

Root ==
    \E c \in BOOLEAN, lf \in LogFailures :
        Respond("root", 0, "", "", root(c), lf)

HealthCheck ==
    \E c \in BOOLEAN, lf \in LogFailures :
        Respond("health_check", 0, "", "", health_check(c), lf)

GetUsers ==
    \E f \in Failures(ReadSteps, TRUE),
       rows \in order_by_created_at_desc(users) :
      LET r == get_users(f, rows)
      IN  \E lf \in LogFailures :
              Respond("get_users", 0, "", "", r, lf)

\* The sequence is capped at MaxId: past it the INSERT raises.
CreateUser ==
    \E user_data \in Payloads :
      \E f \in {s \in Failures(WriteSteps, TRUE) :
                  users_id_seq >= MaxId => s \in {"connect", "execute"}} :
        LET r == create_user(user_data.name, user_data.email, f)
        IN  \E lf \in LogFailures :
                Respond("create_user", 0, user_data.name, user_data.email,
                        r, lf)

GetUser ==
    \E user_id \in UserIds, f \in Failures(ReadSteps, TRUE) :
      LET r == get_user(user_id, f)
      IN  \E lf \in LogFailures :
              Respond("get_user", user_id, "", "", r, lf)

DeleteUser ==
    \E user_id \in UserIds, f \in Failures(WriteSteps, TRUE) :
      LET r == delete_user(user_id, f)
      IN  \E lf \in LogFailures :
              Respond("delete_user", user_id, "", "", r, lf)

GetStats ==
    \E f \in Failures(ReadSteps, TRUE) :
      LET r == get_stats(f)
      IN  \E lf \in LogFailures :
              Respond("get_stats", 0, "", "", r, lf)

TestDatabase ==
    \E f \in Failures(ReadSteps, FALSE), e \in DriverErrors :
        Respond("test_database", 0, "", "", test_database(f, e), "none")

----------------------------------------------------------------------------
(* The environment *)

\* CURRENT_TIMESTAMP advances between statements, or not.
Tick ==
    /\ now < MaxClock
    /\ now' = now + 1
    /\ UNCHANGED <<DB_CONFIG, started, tables, users, users_id_seq, last>>

Next ==
    \/ Lifespan
    \/ Root
    \/ HealthCheck
    \/ GetUsers
    \/ CreateUser
    \/ GetUser
    \/ DeleteUser
    \/ GetStats
    \/ TestDatabase
    \/ Tick

Spec == Init /\ [][Next]_vars

\* The diagnostic routes alone, under every configured password.
InitConfig ==
    /\ DB_CONFIG \in {EnvConfig(p) : p \in Passwords}
    /\ started = FALSE
    /\ tables = FALSE
    /\ users = {}
    /\ users_id_seq = 0
    /\ now = 0
    /\ last = NoRequest

NextConfig ==
    \/ Lifespan
    \/ Root
    \/ HealthCheck
    \/ GetStats
    \/ TestDatabase

SpecConfig == InitConfig /\ [][NextConfig]_vars

----------------------------------------------------------------------------
(* Properties *)

Request == last.route \in Routes

\* The request reached its handler (its payload passed validation).
Handled == Request /\ last.status # 422

StoredIds(S) == {u.id : u \in S}

StoredEmails(S) == {u.email : u \in S}

\* C1: every request, on every route and exit path, appends exactly one
\* entry to the audit log unless the insert of that entry itself failed.
ExactlyOneLogEntry ==
    (Request /\ last.lf # "failed") => Len(last.logged) = 1

\* C2: every connection a request opened is closed when the request
\* returns, on every exit path.
ConnectionsReleased == Request => last.leaked = 0

\* C3 (as claimed): a POST /users whose email is already stored is answered
\* 409, never 500, and leaves the stored users unchanged; stored emails are
\* unique.
DuplicateEmailAlways409 ==
    /\ \A u, v \in users : u.email = v.email => u = v
    /\ (last.route = "create_user" /\ last.email \in StoredEmails(last.pre))
         => (last.status = HTTP_409_CONFLICT /\ users = last.pre)

\* C3 (amended): stored emails are unique in every state; a POST /users
\* whose email is already stored leaves the stored users unchanged and is
\* answered 409 when its connect and its INSERT reach the store, and 500
\* exactly when one of those two calls fails first.
DuplicateEmailConflict ==
    /\ \A u, v \in users : u.email = v.email => u = v
    /\ (last.route = "create_user" /\ last.email \in StoredEmails(last.pre))
         => /\ users = last.pre
            /\ last.status =
                 IF last.fail \in {"connect", "execute"}
                 THEN HTTP_500_INTERNAL_SERVER_ERROR
                 ELSE HTTP_409_CONFLICT

DuplicateEmailWitness ==
    /\ last.route = "create_user"
    /\ last.email \in StoredEmails(last.pre)
    /\ last.status = HTTP_409_CONFLICT
    /\ users = last.pre

\* C4: a user returned by a 201 is served by GET /users/{id}, with the
\* posted name and email, until a DELETE of its id returns 200, and never
\* after.  Step by step: a 201 stores the posted user; a GET that reaches
\* the store answers 200 with the stored row, or 404 when no row has the
\* id; a stored row stays as it is unless the step is a DELETE of its id
\* answered 200; a new row's id was never drawn before.
UserLifecycle ==
    /\ []((last.route = "create_user" /\ last.status = HTTP_201_CREATED)
            => /\ last.user[1] \in users
               /\ last.user[1].name = last.name
               /\ last.user[1].email = last.email)
    /\ []((last.route = "get_user" /\ last.fail = "none")
            => IF last.user_id \in StoredIds(users)
               THEN /\ last.status = 200
                    /\ last.user[1] \in users
                    /\ last.user[1].id = last.user_id
               ELSE last.status = HTTP_404_NOT_FOUND)
    /\ [][\A u \in users :
            \/ u \in users'
            \/ /\ last'.route = "delete_user"
               /\ last'.status = 200
               /\ last'.user_id = u.id]_vars
    /\ [][\A u \in users' \ users : u.id > users_id_seq]_vars

\* C5 (as claimed): GET or DELETE of an id no stored user has is answered
\* 404, never 200 or 500, and leaves the stored users unchanged.
MissingIdAlways404 ==
    (last.route \in {"get_user", "delete_user"}
       /\ last.user_id \notin StoredIds(last.pre))
      => (last.status = HTTP_404_NOT_FOUND /\ users = last.pre)

\* C5 (amended): GET or DELETE of an id no stored user has leaves the stored
\* users unchanged and is never answered 200: it is answered 404 when no
\* store call of the request fails, and 500 when one does.
MissingIdNotFound ==
    (last.route \in {"get_user", "delete_user"}
       /\ last.user_id \notin StoredIds(last.pre))
      => /\ users = last.pre
         /\ last.status = IF last.fail = "none" THEN HTTP_404_NOT_FOUND
                          ELSE HTTP_500_INTERNAL_SERVER_ERROR

MissingIdWitness ==
    /\ last.route = "delete_user"
    /\ last.user_id \notin StoredIds(last.pre)
    /\ last.status = HTTP_404_NOT_FOUND
    /\ users # {}

\* C6: a 200 response of GET /users holds every stored user exactly once,
\* newest created_at first, and its count is the length of its list.
ListUsersOrdered ==
    (last.route = "get_users" /\ last.status = 200)
      => /\ Len(last.users) = Cardinality(users)
         /\ {last.users[i] : i \in 1..Len(last.users)} = users
         /\ \A i, j \in 1..Len(last.users) :
              i < j => last.users[i].created_at >= last.users[j].created_at
         /\ last.count = Len(last.users)

ListUsersWitness ==
    /\ last.route = "get_users"
    /\ last.status = 200
    /\ last.count = 2
    /\ last.users[1].created_at > last.users[2].created_at

\* C7: no store failure escapes a handler: every handled request ends in a
\* response with status 200, 201, 404, 409 or 500, and /, /health and
\* /db-test answer 200 even when the store is unreachable, reporting
\* database "disconnected" or status "error".
NoUnhandledFault ==
    Handled =>
      /\ ~last.fault
      /\ last.status \in {200, HTTP_201_CREATED, HTTP_404_NOT_FOUND,
                          HTTP_409_CONFLICT, HTTP_500_INTERNAL_SERVER_ERROR}
      /\ last.route \in {"root", "health_check", "test_database"}
           => last.status = 200
      /\ (last.route \in {"root", "health_check"} /\ last.fail = "connect")
           => last.database = "disconnected"
      /\ (last.route = "test_database" /\ last.fail # "none")
           => last.body_status = "error"

NoUnhandledFaultWitness ==
    /\ last.route = "health_check"
    /\ last.fail = "connect"
    /\ last.lf = "failed"
    /\ last.status = 200
    /\ last.database = "disconnected"

\* C8: no response carries the text of a driver error in its detail or
\* message.
NoInternalErrorText ==
    Request => \A i \in 1..Len(last.detail) : last.detail[i] \notin DriverErrors

\* C9: on every outcome of GET /db-test the response's config.password is
\* "***" and every other key echoes the configured value, so the config
\* fields are the same under any other configured password.
PasswordRedacted ==
    last.route = "test_database" =>
      /\ DOMAIN last.config = DOMAIN DB_CONFIG
      /\ last.config.password = "***"
      /\ \A k \in DOMAIN DB_CONFIG \ {"password"} :
           last.config[k] = DB_CONFIG[k]
      /\ \A p \in Passwords :
           last.config = RedactedConfig([DB_CONFIG EXCEPT !.password = p])

PasswordRedactedWitness ==
    /\ last.route = "test_database"
    /\ last.fail = "execute"
    /\ DB_CONFIG.password = "s3cr3t"
    /\ last.config.password = "***"

\* C10: the stored users change only together with a success response: a
\* 201 adds exactly the posted user, a DELETE answered 200 removes exactly
\* the user with that id, and every other request leaves them unchanged.
UsersChangeOnlyWithSuccess ==
    Request =>
      IF last.route = "create_user" /\ last.status = HTTP_201_CREATED
      THEN \E u \in users \ last.pre :
             /\ users = last.pre \cup {u}
             /\ u.name = last.name
             /\ u.email = last.email
      ELSE IF last.route = "delete_user" /\ last.status = 200
      THEN /\ last.user_id \in StoredIds(last.pre)
           /\ users = {u \in last.pre : u.id # last.user_id}
      ELSE users = last.pre

====
